---- MODULE Spec2Model ----
(***************************************************************************)
(* Model of DataAnalyzer (src/src/data_analyzer.py): the statistical       *)
(* analysis of a spreadsheet table (analyze) and the selection of the      *)
(* requests handed to the LLM (get_requests_for_llm).                      *)
(*                                                                         *)
(* A table is a sequence of rows, a row a sequence of cells.  A cell is a  *)
(* Python value: a str (a sequence of characters), an int, or None.  A     *)
(* Python exception is modelled by the value Raised, which every operator  *)
(* propagates.                                                             *)
(***************************************************************************)
EXTENDS Integers, Sequences, FiniteSets, TLC

VARIABLES data, category_column, result, printed, requests, runs

vars == <<data, category_column, result, printed, requests, runs>>

-----------------------------------------------------------------------------
(* Python values *)

StrCell(s) == [type |-> "str", s |-> s, n |-> 0]
IntCell(k) == [type |-> "int", s |-> <<>>, n |-> k]
None == [type |-> "NoneType", s |-> <<>>, n |-> 0]
Raised == [type |-> "IndexError", s |-> <<>>, n |-> 0]

IsStr(c) == c.type = "str"

\* bool(c): a str is true when non-empty, an int when non-zero, None never
Truthy(c) ==
    CASE c.type = "str" -> c.s # <<>>
      [] c.type = "int" -> c.n # 0
      [] OTHER -> FALSE

Whitespace == {" "}

RECURSIVE LStrip(_)
LStrip(s) ==
    IF s # <<>> /\ Head(s) \in Whitespace THEN LStrip(Tail(s)) ELSE s

RECURSIVE RStrip(_)
RStrip(s) ==
    IF s # <<>> /\ s[Len(s)] \in Whitespace
    THEN RStrip(SubSeq(s, 1, Len(s) - 1))
    ELSE s

\* str.strip()
Strip(s) == RStrip(LStrip(s))

Digit(d) == <<"0", "1", "2", "3", "4", "5", "6", "7", "8", "9">>[d + 1]

RECURSIVE IntToStr(_)
IntToStr(k) ==
    IF k < 10 THEN <<Digit(k)>> ELSE IntToStr(k \div 10) \o <<Digit(k % 10)>>

\* str(c)
PyStr(c) ==
    CASE c.type = "str" -> c.s
      [] c.type = "int" -> IntToStr(c.n)
      [] OTHER -> <<"N", "o", "n", "e">>

\* row[k] with 0 <= k: IndexError when k is out of range
GetItem(row, k) == IF k < Len(row) THEN row[k + 1] ELSE Raised

-----------------------------------------------------------------------------
(* analyze *)

\* the category text of a cell; <<>> is the empty str
NormalizeCategory(category) ==
    IF IsStr(category)
    THEN Strip(category.s)
    ELSE IF Truthy(category) THEN Strip(PyStr(category)) ELSE <<>>

NoScan == [categories |-> <<>>, skipped_rows |-> <<>>, raised |-> FALSE]

\* LenGuard that lets through the row one cell short of the column
LenGuardShort(row, col) == Len(row) >= col - 1

LenGuard(row, col) == Len(row) >= col

\* ScanRow that passes over a row too short to hold the column
ScanRowDropShort(acc, row, i, col) ==
    IF LenGuard(row, col)
    THEN LET cell == GetItem(row, col - 1) IN
         IF cell = Raised
         THEN [acc EXCEPT !.raised = TRUE]
         ELSE LET category == NormalizeCategory(cell) IN
              IF category # <<>>
              THEN [acc EXCEPT !.categories = Append(@, category)]
              ELSE [acc EXCEPT !.skipped_rows = Append(@, i)]
    ELSE acc

\* one iteration of the loop over enumerate(data[1:], start=2)
ScanRow(acc, row, i, col) ==
    IF LenGuard(row, col)
    THEN LET cell == GetItem(row, col - 1) IN
         IF cell = Raised
         THEN [acc EXCEPT !.raised = TRUE]
         ELSE LET category == NormalizeCategory(cell) IN
              IF category # <<>>
              THEN [acc EXCEPT !.categories = Append(@, category)]
              ELSE [acc EXCEPT !.skipped_rows = Append(@, i)]
    ELSE [acc EXCEPT !.skipped_rows = Append(@, i)]

RECURSIVE ScanRows(_, _, _)
ScanRows(rows, n, col) ==
    IF n <= 1
    THEN NoScan
    ELSE LET acc == ScanRows(rows, n - 1, col) IN
         IF acc.raised THEN acc ELSE ScanRow(acc, rows[n], n, col)

\* position of key in an ordered mapping, 0 when absent
RECURSIVE IndexOf(_, _, _)
IndexOf(counts, key, k) ==
    IF k > Len(counts) THEN 0
    ELSE IF counts[k].key = key THEN k ELSE IndexOf(counts, key, k + 1)

\* Increment that stores 1 instead of adding 1
IncrementAssign(counts, key) ==
    LET k == IndexOf(counts, key, 1) IN
    IF k = 0
    THEN Append(counts, [key |-> key, count |-> 1])
    ELSE [counts EXCEPT ![k].count = 1]

\* counts[key] += 1 on an insertion-ordered dict
Increment(counts, key) ==
    LET k == IndexOf(counts, key, 1) IN
    IF k = 0
    THEN Append(counts, [key |-> key, count |-> 1])
    ELSE [counts EXCEPT ![k].count = @ + 1]

\* Counter(categories)
RECURSIVE Counter(_)
Counter(categories) ==
    IF categories = <<>>
    THEN <<>>
    ELSE Increment(Counter(SubSeq(categories, 1, Len(categories) - 1)),
                   categories[Len(categories)])

\* MostCommon in which the last maximum wins
RECURSIVE MostCommonLast(_)
MostCommonLast(counts) ==
    IF Len(counts) = 1
    THEN counts[1]
    ELSE LET best == MostCommonLast(SubSeq(counts, 1, Len(counts) - 1))
             last == counts[Len(counts)]
         IN IF last.count >= best.count THEN last ELSE best

\* Counter.most_common(1)[0]: max() over the items, the first maximum wins
RECURSIVE MostCommon(_)
MostCommon(counts) ==
    IF Len(counts) = 1
    THEN counts[1]
    ELSE LET best == MostCommon(SubSeq(counts, 1, Len(counts) - 1))
             last == counts[Len(counts)]
         IN IF last.count > best.count THEN last ELSE best

\* ZeroResult with a zero row count as well
ZeroResultNoRows(rows) ==
    [raised |-> FALSE,
     total_requests |-> 0,
     total_rows |-> 0,
     category_counts |-> <<>>,
     most_common_category |-> <<>>,
     most_common_count |-> 0,
     raw_data |-> rows]

\* the result of the two early returns
ZeroResult(rows) ==
    [raised |-> FALSE,
     total_requests |-> 0,
     total_rows |-> Len(rows),
     category_counts |-> <<>>,
     most_common_category |-> <<>>,
     most_common_count |-> 0,
     raw_data |-> rows]

RaisedResult ==
    [raised |-> TRUE,
     total_requests |-> 0,
     total_rows |-> 0,
     category_counts |-> <<>>,
     most_common_category |-> <<>>,
     most_common_count |-> 0,
     raw_data |-> <<>>]

\* DataAnalyzer.analyze(data) with self.category_column = col
AnalyzeResult(rows, col) ==
    IF Len(rows) <= 1
    THEN ZeroResult(rows)
    ELSE LET scan == ScanRows(rows, Len(rows), col) IN
         IF scan.raised THEN RaisedResult
         ELSE IF scan.categories = <<>> THEN ZeroResult(rows)
         ELSE LET category_counts == Counter(scan.categories)
                  most == MostCommon(category_counts)
              IN [raised |-> FALSE,
                  total_requests |-> Len(scan.categories),
                  total_rows |-> Len(rows),
                  category_counts |-> category_counts,
                  most_common_category |-> most.key,
                  most_common_count |-> most.count,
                  raw_data |-> rows]

\* print(f"... {len(skipped_rows)} ..."): the number of skipped rows analyze
\* prints, <<>> when it returns before the scan
AnalyzePrinted(rows, col) ==
    IF Len(rows) <= 1
    THEN <<>>
    ELSE LET scan == ScanRows(rows, Len(rows), col) IN
         IF scan.raised THEN <<>> ELSE <<Len(scan.skipped_rows)>>

\* AnalysisResult.has_data
HasData(r) == r.total_requests > 0

\* InsertSorted that puts item before its equals
RECURSIVE InsertSortedBefore(_, _)
InsertSortedBefore(sorted, item) ==
    IF sorted = <<>> THEN <<item>>
    ELSE IF Head(sorted).count > item.count
         THEN <<Head(sorted)>> \o InsertSortedBefore(Tail(sorted), item)
         ELSE <<item>> \o sorted

\* insert item into a sequence sorted by count descending, after its equals
RECURSIVE InsertSorted(_, _)
InsertSorted(sorted, item) ==
    IF sorted = <<>> THEN <<item>>
    ELSE IF Head(sorted).count >= item.count
         THEN <<Head(sorted)>> \o InsertSorted(Tail(sorted), item)
         ELSE <<item>> \o sorted

\* sorted(items, key=count, reverse=True): stable, equal counts keep their order
RECURSIVE SortedByCount(_)
SortedByCount(items) ==
    IF items = <<>> THEN <<>>
    ELSE InsertSorted(SortedByCount(SubSeq(items, 1, Len(items) - 1)),
                      items[Len(items)])

\* AnalysisResult.categories_sorted
CategoriesSorted(r) == SortedByCount(r.category_counts)

-----------------------------------------------------------------------------
(* get_requests_for_llm *)

\* row[0] if len(row) > 0 and row[0] else str(i)
IdField(row, i) ==
    IF Len(row) > 0 /\ Truthy(GetItem(row, 0))
    THEN GetItem(row, 0)
    ELSE StrCell(IntToStr(i))

\* row[k] if len(row) > k else ""
Field(row, k) == IF Len(row) > k THEN GetItem(row, k) ELSE StrCell(<<>>)

\* Clean without the strip
CleanNoStrip(c) == IF c = None THEN StrCell(<<>>) ELSE c

\* the cleaning loop: a str is stripped, None becomes "", anything else stays
Clean(c) ==
    IF IsStr(c) THEN StrCell(Strip(c.s))
    ELSE IF c = None THEN StrCell(<<>>) ELSE c

\* the request_data dict of one row, after the cleaning loop
RequestData(row, i) ==
    [row_number |-> i,
     id |-> Clean(IdField(row, i)),
     date |-> Clean(Field(row, 1)),
     category |-> Clean(Field(row, 2)),
     choice |-> Clean(Field(row, 3))]

RecordRaised(r) ==
    Raised \in {r.id, r.date, r.category, r.choice}

\* if request_data["choice"]
HasChoice(r) == Truthy(r.choice)

NoRequests == [raised |-> FALSE, list |-> <<>>]

RECURSIVE CollectRequests(_, _)
CollectRequests(rows, n) ==
    IF n <= 1
    THEN NoRequests
    ELSE LET acc == CollectRequests(rows, n - 1)
             r == RequestData(rows[n], n)
         IN IF acc.raised THEN acc
            ELSE IF RecordRaised(r) THEN [raised |-> TRUE, list |-> <<>>]
            ELSE IF HasChoice(r) THEN [acc EXCEPT !.list = Append(@, r)]
            ELSE acc

\* DataAnalyzer.get_requests_for_llm(data)
RequestsForLLM(rows) ==
    IF Len(rows) <= 1 THEN NoRequests ELSE CollectRequests(rows, Len(rows))

-----------------------------------------------------------------------------
(* Input tables *)

\* category_column: Field(3, ge=1, le=26) in config.py
MinCategoryColumn == 1
DefaultCategoryColumn == 3
MaxCategoryColumn == 26

CategoryColumns == {MinCategoryColumn, DefaultCategoryColumn, MaxCategoryColumn}

\* data rows of a table read by analyze
MaxDataRows == 4
\* data rows of a table read by get_requests_for_llm
MaxRequestRows == 2
\* calls of analyze on one table
MaxRuns == 2

\* the cells a sheet delivers: empty, numbers, and strings with and without
\* surrounding whitespace
Cells ==
    {None, IntCell(0), IntCell(7),
     StrCell(<<>>), StrCell(<<" ">>), StrCell(<<"a">>),
     StrCell(<<" ", "a", " ">>), StrCell(<<"b">>)}

RequestCells ==
    {None, IntCell(0), IntCell(7),
     StrCell(<<>>), StrCell(<<" ">>), StrCell(<<" ", "a", " ">>)}

ShapeCells == {None, IntCell(7), StrCell(<<" ", "a">>)}

\* a cell the code under study never normalises to empty
Filler == StrCell(<<"x">>)

Fill(n) == [j \in 1..n |-> Filler]

Header == Fill(4)

\* the empty table, and a header followed by at most max rows of Rows
Tables(Rows, max) ==
    {<<>>} \cup
    {<<Header>> \o t : t \in UNION {[1..n -> Rows] : n \in 0..max}}

\* analyze reads len(row) and row[col - 1] only: the rows are the empty row,
\* the row one cell short of the category column, and the rows that end with
\* any cell in the category column
AnalyzeRows(col) ==
    {Fill(n) : n \in {0, col - 1}} \cup
    {Fill(col - 1) \o <<c>> : c \in Cells}

\* get_requests_for_llm reads len(row) and row[0..3]: the rows are the
\* prefixes of the rows <<id, date, category, choice>> in which the id, or
\* the date and the category, or the choice is any cell
FullRequestRows ==
    {<<c, Filler, Filler, Filler>> : c \in RequestCells} \cup
    {<<Filler, c, c, Filler>> : c \in RequestCells} \cup
    {<<Filler, Filler, Filler, c>> : c \in RequestCells} \cup
    {Fill(4)}

RequestRows == {SubSeq(r, 1, n) : r \in FullRequestRows, n \in 0..4}

\* rows of one repeated cell, of every length around the indexes the code
\* reads: 0..3 and category_column - 1
ShapeLens == 0..5 \cup (MaxCategoryColumn - 1)..(MaxCategoryColumn + 1)

ShapeRows == {[j \in 1..n |-> c] : n \in ShapeLens, c \in ShapeCells}

-----------------------------------------------------------------------------
(* The analyzer: DataAnalyzer(category_column) and the table it is given.   *)
(* result and requests hold what the calls returned: <<>> before the call, *)
(* <<value>> after it.  printed holds what the last call of analyze        *)
(* printed, runs counts the calls of analyze.                              *)

Init ==
    /\ category_column \in CategoryColumns
    /\ data \in Tables(AnalyzeRows(category_column), MaxDataRows)
    /\ result = <<>>
    /\ printed = <<>>
    /\ requests = <<>>
    /\ runs = 0

InitLLM ==
    /\ category_column = DefaultCategoryColumn
    /\ data \in Tables(RequestRows, MaxRequestRows)
    /\ result = <<>>
    /\ printed = <<>>
    /\ requests = <<>>
    /\ runs = 0

InitShape ==
    /\ category_column \in CategoryColumns
    /\ data \in Tables(ShapeRows, MaxRequestRows)
    /\ result = <<>>
    /\ printed = <<>>
    /\ requests = <<>>
    /\ runs = 0

\* Analyze that pops the header off the table it was given
AnalyzeDropHeader ==
    /\ runs < MaxRuns
    /\ runs' = runs + 1
    /\ result' = <<AnalyzeResult(data, category_column)>>
    /\ printed' = AnalyzePrinted(data, category_column)
    /\ data' = IF data = <<>> THEN data ELSE Tail(data)
    /\ UNCHANGED <<category_column, requests>>

\* result = analyzer.analyze(data)
Analyze ==
    /\ runs < MaxRuns
    /\ runs' = runs + 1
    /\ result' = <<AnalyzeResult(data, category_column)>>
    /\ printed' = AnalyzePrinted(data, category_column)
    /\ UNCHANGED <<data, category_column, requests>>

\* requests = analyzer.get_requests_for_llm(data)
GetRequestsForLLM ==
    /\ requests' = <<RequestsForLLM(data)>>
    /\ UNCHANGED <<data, category_column, result, printed, runs>>

Next == Analyze

NextLLM == GetRequestsForLLM

NextShape == Analyze \/ GetRequestsForLLM

Spec == Init /\ [][Next]_vars

SpecLLM == InitLLM /\ [][NextLLM]_vars

SpecShape == InitShape /\ [][NextShape]_vars

-----------------------------------------------------------------------------
(* Properties of analyze *)

Analyzed == result # <<>>

Res == result[1]

DataRows == 2..Len(data)

\* the category analyze reads in data row i, <<>> when it reads none
RowCategory(i) ==
    IF Len(data[i]) >= category_column
    THEN NormalizeCategory(data[i][category_column])
    ELSE <<>>

\* the first data row that holds category key
FirstSeen(key) ==
    CHOOSE i \in DataRows :
        /\ RowCategory(i) = key
        /\ \A j \in 2..(i - 1) : RowCategory(j) # key

RECURSIVE SumCounts(_)
SumCounts(counts) ==
    IF counts = <<>> THEN 0 ELSE Head(counts).count + SumCounts(Tail(counts))

\* C1: the counts of the returned result add up to total_requests, and
\* total_requests is at most total_rows - 1 when the table has a row
C1_CountsSumToTotal ==
    Analyzed /\ ~Res.raised =>
        /\ SumCounts(Res.category_counts) = Res.total_requests
        /\ Len(data) >= 1 => Res.total_requests <= Res.total_rows - 1

\* a table of a header and three data rows: one category twice, one row skipped
C1_Witness ==
    /\ Analyzed
    /\ Len(data) = 4
    /\ Res.total_requests = 2
    /\ Len(Res.category_counts) = 1
    /\ printed = <<1>>

\* C2: when a data row has a non-empty category, most_common_count is the
\* largest count and most_common_category is, of the categories with that
\* count, the one seen first in row order
C2_MostCommonFirstSeen ==
    Analyzed /\ (\E i \in DataRows : RowCategory(i) # <<>>) =>
        LET counts == Res.category_counts IN
        /\ ~Res.raised
        /\ \A k \in 1..Len(counts) : counts[k].count <= Res.most_common_count
        /\ \E k \in 1..Len(counts) :
              /\ counts[k].key = Res.most_common_category
              /\ counts[k].count = Res.most_common_count
        /\ \A k \in 1..Len(counts) :
              (counts[k].count = Res.most_common_count
               /\ counts[k].key # Res.most_common_category)
              => FirstSeen(Res.most_common_category) < FirstSeen(counts[k].key)

\* two categories tied at count 2, the winner seen first
C2_Witness ==
    /\ Analyzed
    /\ Len(Res.category_counts) = 2
    /\ Res.category_counts[1].count = 2
    /\ Res.category_counts[2].count = 2
    /\ Res.most_common_category = Res.category_counts[1].key

\* C3: categories_sorted holds exactly the pairs of category_counts, by
\* count descending, equal counts in the order the categories were first seen
C3_CategoriesSortedStable ==
    Analyzed /\ ~Res.raised =>
        LET counts == Res.category_counts
            cs == CategoriesSorted(Res)
        IN /\ Len(cs) = Len(counts)
           /\ {cs[k] : k \in 1..Len(cs)} = {counts[k] : k \in 1..Len(counts)}
           /\ \A i, j \in 1..Len(cs) :
                 i < j =>
                    \/ cs[i].count > cs[j].count
                    \/ /\ cs[i].count = cs[j].count
                       /\ FirstSeen(cs[i].key) < FirstSeen(cs[j].key)

\* three categories: the second seen is the most frequent, the other two tie
C3_Witness ==
    /\ Analyzed
    /\ Len(Res.category_counts) = 3
    /\ CategoriesSorted(Res) =
          <<Res.category_counts[2], Res.category_counts[1],
            Res.category_counts[3]>>
    /\ Res.category_counts[1].count = Res.category_counts[3].count

\* C4: a table of at most one row, or one in which no data row has a
\* non-empty category, gets the zero-valued result with total_rows = len(table)
C4_ZeroValuedResult ==
    Analyzed /\ (Len(data) <= 1 \/ \A i \in DataRows : RowCategory(i) = <<>>) =>
        /\ ~Res.raised
        /\ Res.total_requests = 0
        /\ Res.category_counts = <<>>
        /\ Res.most_common_category = <<>>
        /\ Res.most_common_count = 0
        /\ ~HasData(Res)
        /\ Res.total_rows = Len(data)

\* a table with data rows, every one of them skipped
C4_Witness ==
    /\ Analyzed
    /\ Len(data) = 3
    /\ printed = <<2>>
    /\ Res.total_requests = 0
    /\ Res.total_rows = 3

\* the text the category cell of data row i stands for: <<>> when the column
\* is absent or the cell is empty, else the trimmed text of the cell
CellText(i) ==
    IF Len(data[i]) < category_column THEN <<>>
    ELSE LET c == data[i][category_column] IN
         IF c = None THEN <<>> ELSE Strip(PyStr(c))

RowsWithText(key) == {i \in DataRows : CellText(i) = key}

\* C5: every data row is counted under the trimmed text of its category
\* cell, numbers included, and skipped only when that text is empty
C5_CountedUnderTrimmedText ==
    Analyzed /\ Len(data) > 1 =>
        LET counts == Res.category_counts IN
        /\ Res.total_requests = Cardinality(DataRows \ RowsWithText(<<>>))
        /\ \A k \in 1..Len(counts) :
              counts[k].count = Cardinality(RowsWithText(counts[k].key))
        /\ printed = <<Cardinality(RowsWithText(<<>>))>>

-----------------------------------------------------------------------------
(* Properties of get_requests_for_llm *)

Requested == requests # <<>>

Reqs == requests[1].list

EmptyAfterTrim(c) == c = None \/ (IsStr(c) /\ Strip(c.s) = <<>>)

\* C6: no returned record has a choice that is empty after trimming, the
\* records are in strictly increasing row_number order, row_number is the
\* position of the source row, and a table of at most one row yields none
C6_ChoiceNonEmptyRowOrder ==
    Requested =>
        /\ ~requests[1].raised
        /\ \A k \in 1..Len(Reqs) :
              LET r == Reqs[k] IN
              /\ ~EmptyAfterTrim(r.choice)
              /\ r.row_number \in DataRows
              /\ Len(data[r.row_number]) >= 4
              /\ LET c == data[r.row_number][4] IN
                 r.choice = IF IsStr(c) THEN StrCell(Strip(c.s)) ELSE c
        /\ \A j, k \in 1..Len(Reqs) :
              j < k => Reqs[j].row_number < Reqs[k].row_number
        /\ Len(data) <= 1 => Reqs = <<>>

\* both data rows are returned, the second with a choice that was trimmed
C6_Witness ==
    /\ Requested
    /\ Len(Reqs) = 2
    /\ Reqs[1].row_number = 2
    /\ Reqs[2].row_number = 3
    /\ data[3][4] = StrCell(<<" ", "a", " ">>)
    /\ Reqs[2].choice = StrCell(<<"a">>)

\* the id cell of a row is blank: absent, empty, or empty after trimming
BlankId(row) == Len(row) = 0 \/ EmptyAfterTrim(row[1])

\* C7: id is the trimmed value of column 1, the row_number as a string when
\* the id cell is blank, and never empty
C7_IdTrimmedOrRowNumber ==
    Requested =>
        \A k \in 1..Len(Reqs) :
            LET r == Reqs[k]
                row == data[r.row_number]
            IN /\ r.id # StrCell(<<>>)
               /\ BlankId(row) => r.id = StrCell(IntToStr(r.row_number))
               /\ (~BlankId(row) /\ IsStr(row[1])) =>
                     r.id = StrCell(Strip(row[1].s))

\* C8: id, date, category and choice of every returned record are strings
\* without leading or trailing whitespace
C8_FieldsAreTrimmedStrings ==
    Requested =>
        \A k \in 1..Len(Reqs) :
            \A f \in {Reqs[k].id, Reqs[k].date, Reqs[k].category, Reqs[k].choice} :
                IsStr(f) /\ Strip(f.s) = f.s

-----------------------------------------------------------------------------
(* Properties of both *)

\* C9: for rows of any length and every category_column, analyze and
\* get_requests_for_llm return without raising; a row shorter than the
\* category column is skipped, a field of an absent column is empty
C9_NeverRaises ==
    /\ Analyzed =>
          /\ ~Res.raised
          /\ Res.total_requests <=
                Cardinality({i \in DataRows : Len(data[i]) >= category_column})
    /\ Requested =>
          /\ ~requests[1].raised
          /\ \A k \in 1..Len(Reqs) :
                LET r == Reqs[k] IN
                /\ Len(data[r.row_number]) < 2 => r.date = StrCell(<<>>)
                /\ Len(data[r.row_number]) < 3 => r.category = StrCell(<<>>)

\* both calls returned on a table with an empty row and a row one cell
\* short of the last category column
C9_Witness ==
    /\ Analyzed
    /\ Requested
    /\ category_column = MaxCategoryColumn
    /\ \E i \in DataRows : Len(data[i]) = 0
    /\ \E i \in DataRows : Len(data[i]) = MaxCategoryColumn - 1
    /\ Len(Reqs) = 1

-----------------------------------------------------------------------------
(* Skipped rows *)

\* C11: on a table of more than one row every data row is counted or
\* skipped, exactly one of the two, so the number of skipped rows analyze
\* prints is total_rows - 1 - total_requests; total_rows tells the
\* header-only or empty table (nothing scanned, nothing printed) from the
\* table whose data rows were all skipped
C11_SkippedIsRowsMinusRequests ==
    Analyzed /\ ~Res.raised =>
        /\ (Len(data) > 1) =>
              (printed = <<Res.total_rows - 1 - Res.total_requests>>)
        /\ (Res.total_rows <= 1) <=> (Len(data) <= 1 /\ printed = <<>>)
        /\ (Res.total_rows > 1 /\ Res.total_requests = 0) <=>
              (Len(data) > 1 /\ printed = <<Len(data) - 1>>)

\* three data rows, all skipped: one too short for the category column, one
\* with an empty cell in it, one with a whitespace cell in it
C11_Witness ==
    /\ Analyzed
    /\ category_column = DefaultCategoryColumn
    /\ Len(data) = 4
    /\ Len(data[2]) < category_column
    /\ Len(data[3]) >= category_column
    /\ data[3][category_column] = StrCell(<<>>)
    /\ Len(data[4]) >= category_column
    /\ data[4][category_column] = StrCell(<<" ">>)
    /\ Res.total_requests = 0
    /\ Res.total_rows = 4
    /\ printed = <<3>>

====
